---- MODULE Spec2Model ----
(***************************************************************************)
(* Raster image to G-code conversion (raster_converter.py).                *)
(*                                                                         *)
(* Four specifications over one set of variables:                          *)
(*   Spec     convert_image from the mode switch on: reduce_by_row run     *)
(*            cell by cell on a copy of the mask, then the two emitters;   *)
(*   SpecFS   floyd_steinberg, one cell of the buffer per step;            *)
(*   SpecDS   downsample;                                                  *)
(*   SpecAvg  average_array.                                               *)
(* Arrays are records [shape, cell] with 0-based index tuples, as in the   *)
(* source.  A G-code program is the sequence of its text lines; a line is  *)
(* a record [op, args] where args lists the <<letter, number>> words.      *)
(***************************************************************************)
EXTENDS Integers, Sequences, FiniteSets, TLC

VARIABLES
    pc,          \* position in convert_image / reduce_by_row
    mode,        \* convert_image parameter
    x, y,        \* origin
    z_offset,    \* drawing height
    scale,       \* size of a cell
    heap,        \* array objects: object id -> array
    data_avg,    \* object id of the mask returned by average_array
    new_arr,     \* object id of reduce_by_row's new_arr ("unbound" before the call)
    rb_i, rb_j,  \* loop indices of reduce_by_row
    point,       \* reduce_by_row's run start: <<>> (None) or <<i, j>>
    gcode,       \* the program convert_image returns
    image,       \* floyd_steinberg's buffer
    fs_pos,      \* floyd_steinberg's loop position <<j, i, c>>
    fs_pc,
    ds_image, ds_factor, ds_result, ds_pc,
    av_arr, av_weights, av_threshold, av_result, av_pc

mainVars == <<pc, mode, x, y, z_offset, scale, heap, data_avg, new_arr,
              rb_i, rb_j, point, gcode>>
fsVars   == <<image, fs_pos, fs_pc>>
dsVars   == <<ds_image, ds_factor, ds_result, ds_pc>>
avVars   == <<av_arr, av_weights, av_threshold, av_result, av_pc>>
vars     == <<mainVars, fsVars, dsVars, avVars>>

----------------------------------------------------------------------------
(* Bounds of the model *)

MaxCells == 6      \* a mask or buffer has at most this many cells
Resolution == 3    \* fixed-point digits (base 24) of a buffer sample
ThrDen == 2        \* thresholds are k / ThrDen
MaxWeight == 1     \* channel weights range over -1 .. MaxWeight
MaxFactor == 3     \* integer downsample factors range over -MaxFactor .. MaxFactor

Origins  == {0, 1}
Scales   == {1, 2}
ZOffsets == {0, 1}     \* drawing heights, below the pen-up height
Modes    == {"normal", "reduced", "full", "fast"}

----------------------------------------------------------------------------
(* Arrays *)

None == <<>>

Idx2(H, W) == (0 .. H - 1) \X (0 .. W - 1)

Shapes2 == {s \in (1 .. MaxCells) \X (1 .. MaxCells) : s[1] * s[2] <= MaxCells}

BinaryMasks ==
    UNION {[shape : {s}, cell : [Idx2(s[1], s[2]) -> {0, 1}]] : s \in Shapes2}

Rows(a) == a.shape[1]
Cols(a) == a.shape[2]

RECURSIVE SumOver(_, _)
SumOver(f, S) ==
    IF S = {} THEN 0
    ELSE LET p == CHOOSE q \in S : TRUE IN f[p] + SumOver(f, S \ {p})

----------------------------------------------------------------------------
(* G-code lines *)

Line(op, args) == [op |-> op, args |-> args]
Comment(text)  == Line(text, <<>>)
Blank          == Line("", <<>>)

LiftZ  == 5     \* "G1 Z5 F600": travel height before the first move
PenUpZ == 2     \* "G1 Z2 F600": pen-up height after every mark

HasArg(l, k) == \E n \in 1 .. Len(l.args) : l.args[n][1] = k
Arg(l, k)    == l.args[CHOOSE n \in 1 .. Len(l.args) : l.args[n][1] = k][2]

Header(px, py) ==
    << Line("G28", <<>>),
       Line("G90", <<>>),
       Line("G21", <<>>),
       Blank,
       Comment("; Move to starting position"),
       Line("G1", << <<"Z", LiftZ>>, <<"F", 600>> >>),
       Line("G1", << <<"X", px>>, <<"Y", py>>, <<"F", 3000>> >>) >>

Outline(arr, px, py, sc) ==
    << Comment("; Trace outline"),
       Line("G1", << <<"X", px>>, <<"Y", py>>, <<"F", 1000>> >>),
       Line("G1", << <<"X", px + Rows(arr) * sc>>, <<"Y", py>>, <<"F", 1000>> >>),
       Line("G1", << <<"X", px + Rows(arr) * sc>>, <<"Y", py + Cols(arr) * sc>>,
                     <<"F", 1000>> >>),
       Line("G1", << <<"X", px>>, <<"Y", py + Cols(arr) * sc>>, <<"F", 1000>> >>),
       Line("G1", << <<"X", px>>, <<"Y", py>>, <<"F", 1000>> >>) >>

\* header, outline and "; Start printing\n" joined by '\n'
Preamble(arr, px, py, sc) ==
    Header(px, py) \o <<Blank>> \o Outline(arr, px, py, sc) \o <<Blank>>
        \o <<Comment("; Start printing"), Blank>>

RowComment(i) == Line("; Row", << <<"", i>> >>)

Footer == <<Line("M84", <<>>)>>

\* one mark of to_gcode for cell (i, j)
mark_no_lift(i, j, px, py, z, sc) ==
    << Line("G1", << <<"X", i * sc + px>>, <<"Y", j * sc + py>>, <<"F", 1500>> >>),
       Line("G1", << <<"Z", z>>, <<"F", 600>> >>),
       Blank >>
Mark(i, j, px, py, z, sc) ==
    << Line("G1", << <<"X", i * sc + px>>, <<"Y", j * sc + py>>, <<"F", 1500>> >>),
       Line("G1", << <<"Z", z>>, <<"F", 600>> >>),
       Line("G1", << <<"Z", PenUpZ>>, <<"F", 600>> >>),
       Blank >>

\* one stroke of to_gcode_reduced for cell (i, j) holding factor
stroke_past_end(i, j, factor, px, py, z, sc) ==
    << Line("G1", << <<"X", i * sc + px>>, <<"Y", j * sc + py>>, <<"F", 1500>> >>),
       Line("G1", << <<"Z", z>>, <<"F", 600>> >>),
       Line("G1", << <<"X", i * sc + px>>, <<"Y", (j + factor) * sc + py>>,
                     <<"F", 1500>> >>),
       Line("G1", << <<"Z", PenUpZ>>, <<"F", 600>> >>),
       Blank >>
Stroke(i, j, factor, px, py, z, sc) ==
    << Line("G1", << <<"X", i * sc + px>>, <<"Y", j * sc + py>>, <<"F", 1500>> >>),
       Line("G1", << <<"Z", z>>, <<"F", 600>> >>),
       Line("G1", << <<"X", i * sc + px>>, <<"Y", (j + factor - 1) * sc + py>>,
                     <<"F", 1500>> >>),
       Line("G1", << <<"Z", PenUpZ>>, <<"F", 600>> >>),
       Blank >>

RECURSIVE to_gcode_cells(_, _, _, _, _, _, _)
to_gcode_cells(arr, i, j, px, py, z, sc) ==
    IF i = Rows(arr) THEN <<>>
    ELSE IF j = Cols(arr) THEN to_gcode_cells(arr, i + 1, 0, px, py, z, sc)
    ELSE (IF j = 0 THEN <<RowComment(i)>> ELSE <<>>)
         \o (IF arr.cell[<<i, j>>] = 1 THEN Mark(i, j, px, py, z, sc) ELSE <<>>)
         \o to_gcode_cells(arr, i, j + 1, px, py, z, sc)

to_gcode(arr, px, py, z, sc) ==
    Preamble(arr, px, py, sc) \o to_gcode_cells(arr, 0, 0, px, py, z, sc) \o Footer

RECURSIVE to_gcode_reduced_cells(_, _, _, _, _, _, _)
to_gcode_reduced_cells(arr, i, j, px, py, z, sc) ==
    IF i = Rows(arr) THEN <<>>
    ELSE IF j = Cols(arr) THEN to_gcode_reduced_cells(arr, i + 1, 0, px, py, z, sc)
    ELSE (IF j = 0 THEN <<RowComment(i)>> ELSE <<>>)
         \o (IF arr.cell[<<i, j>>] > 0
             THEN Stroke(i, j, arr.cell[<<i, j>>], px, py, z, sc) ELSE <<>>)
         \o to_gcode_reduced_cells(arr, i, j + 1, px, py, z, sc)

to_gcode_reduced(arr, px, py, z, sc) ==
    Preamble(arr, px, py, sc) \o to_gcode_reduced_cells(arr, 0, 0, px, py, z, sc)
        \o Footer

----------------------------------------------------------------------------
(* reduce_by_row: the body of the inner loop, on new_arr *)

\* arr.copy() returns a newly allocated array object
alias_instead_of_copy(obj) == obj
copy_object(obj) == "new_arr"

no_zeroing_cell(a, pt, i, j) ==
    IF a.cell[<<i, j>>] = 1 /\ pt # None
    THEN [a EXCEPT !.cell[pt] = @ + 1]
    ELSE a
reduce_cell(a, pt, i, j) ==
    IF a.cell[<<i, j>>] = 1 /\ pt # None
    THEN [a EXCEPT !.cell = [[@ EXCEPT ![pt] = @ + 1] EXCEPT ![<<i, j>>] = 0]]
    ELSE a

no_reset_point(a, pt, i, j) ==
    IF pt = None /\ a.cell[<<i, j>>] = 1 THEN <<i, j>> ELSE pt
reduce_point(a, pt, i, j) ==
    IF a.cell[<<i, j>>] = 1
    THEN (IF pt = None THEN <<i, j>> ELSE pt)
    ELSE None

----------------------------------------------------------------------------
(* The variables of a function that a specification does not run *)

IdleMain ==
    /\ pc = "idle"
    /\ mode = "reduced"
    /\ x = 0
    /\ y = 0
    /\ z_offset = 0
    /\ scale = 1
    /\ data_avg = "data_avg"
    /\ heap = [o \in {"data_avg"} |-> [shape |-> <<0, 0>>, cell |-> <<>>]]
    /\ new_arr = "unbound"
    /\ rb_i = 0
    /\ rb_j = 0
    /\ point = None
    /\ gcode = <<>>

IdleFS ==
    /\ image = [shape |-> <<0, 0, 0>>, cell |-> <<>>]
    /\ fs_pos = <<0, 0, 0>>
    /\ fs_pc = "idle"

IdleDS ==
    /\ ds_image = [shape |-> <<0, 0, 0>>, cell |-> <<>>]
    /\ ds_factor = [kind |-> "int", val |-> 1]
    /\ ds_result = [status |-> "none", shape |-> <<0, 0, 0>>, cell |-> <<>>]
    /\ ds_pc = "idle"

IdleAvg ==
    /\ av_arr = [shape |-> <<0, 0, 0>>, cell |-> <<>>]
    /\ av_weights = <<1, 1, 1>>
    /\ av_threshold = 0
    /\ av_result = [status |-> "none", shape |-> <<0, 0>>, cell |-> <<>>]
    /\ av_pc = "idle"

----------------------------------------------------------------------------
(* convert_image, from the mode switch on *)

Init ==
    /\ pc = "match"
    /\ mode \in Modes
    /\ x \in Origins
    /\ y \in Origins
    /\ z_offset \in ZOffsets
    /\ scale \in Scales
    /\ data_avg = "data_avg"
    /\ \E m \in BinaryMasks : heap = [o \in {"data_avg"} |-> m]
    /\ new_arr = "unbound"
    /\ rb_i = 0
    /\ rb_j = 0
    /\ point = None
    /\ gcode = <<>>
    /\ IdleFS
    /\ IdleDS
    /\ IdleAvg

\* case "normal"
CaseNormal ==
    /\ pc = "match"
    /\ mode = "normal"
    /\ gcode' = to_gcode(heap[data_avg], x, y, z_offset, scale)
    /\ pc' = "done"
    /\ UNCHANGED <<mode, x, y, z_offset, scale, heap, data_avg, new_arr,
                   rb_i, rb_j, point, fsVars, dsVars, avVars>>

\* case "reduced": the call of reduce_by_row, up to the outer loop
CaseReduced ==
    /\ pc = "match"
    /\ mode = "reduced"
    /\ new_arr' = copy_object(data_avg)
    /\ heap' = [o \in DOMAIN heap \cup {new_arr'} |-> heap[data_avg]]
    /\ rb_i' = 0
    /\ pc' = "rb_row"
    /\ UNCHANGED <<mode, x, y, z_offset, scale, data_avg, rb_j, point, gcode,
                   fsVars, dsVars, avVars>>

\* case _
to_reduced_when_unknown ==
    /\ pc = "match"
    /\ mode \notin {"normal", "reduced"}
    /\ gcode' = to_gcode_reduced(heap[data_avg], x, y, z_offset, scale)
    /\ pc' = "done"
    /\ UNCHANGED <<mode, x, y, z_offset, scale, heap, data_avg, new_arr,
                   rb_i, rb_j, point, fsVars, dsVars, avVars>>
CaseDefault ==
    /\ pc = "match"
    /\ mode \notin {"normal", "reduced"}
    /\ gcode' = to_gcode(heap[data_avg], x, y, z_offset, scale)
    /\ pc' = "done"
    /\ UNCHANGED <<mode, x, y, z_offset, scale, heap, data_avg, new_arr,
                   rb_i, rb_j, point, fsVars, dsVars, avVars>>

\* for i in range(new_arr.shape[0]): point = None
ReduceRow ==
    /\ pc = "rb_row"
    /\ rb_i < Rows(heap[new_arr])
    /\ point' = None
    /\ rb_j' = 0
    /\ pc' = "rb_cell"
    /\ UNCHANGED <<mode, x, y, z_offset, scale, heap, data_avg, new_arr, rb_i,
                   gcode, fsVars, dsVars, avVars>>

\* for j in range(new_arr.shape[1]): the loop body
ReduceCell ==
    /\ pc = "rb_cell"
    /\ rb_j < Cols(heap[new_arr])
    /\ heap' = [heap EXCEPT ![new_arr] = reduce_cell(@, point, rb_i, rb_j)]
    /\ point' = reduce_point(heap[new_arr], point, rb_i, rb_j)
    /\ rb_j' = rb_j + 1
    /\ UNCHANGED <<pc, mode, x, y, z_offset, scale, data_avg, new_arr, rb_i,
                   gcode, fsVars, dsVars, avVars>>

\* the inner loop ends
ReduceRowEnd ==
    /\ pc = "rb_cell"
    /\ rb_j = Cols(heap[new_arr])
    /\ rb_i' = rb_i + 1
    /\ pc' = "rb_row"
    /\ UNCHANGED <<mode, x, y, z_offset, scale, heap, data_avg, new_arr, rb_j,
                   point, gcode, fsVars, dsVars, avVars>>

\* return new_arr; gcode = to_gcode_reduced(data_reduced, ...)
EmitReduced ==
    /\ pc = "rb_row"
    /\ rb_i = Rows(heap[new_arr])
    /\ gcode' = to_gcode_reduced(heap[new_arr], x, y, z_offset, scale)
    /\ pc' = "done"
    /\ UNCHANGED <<mode, x, y, z_offset, scale, heap, data_avg, new_arr,
                   rb_i, rb_j, point, fsVars, dsVars, avVars>>

Next ==
    \/ CaseNormal
    \/ CaseReduced
    \/ CaseDefault
    \/ ReduceRow
    \/ ReduceCell
    \/ ReduceRowEnd
    \/ EmitReduced

Spec == Init /\ [][Next]_vars

----------------------------------------------------------------------------
(* Reading a mask and a program *)

Mask    == heap[data_avg]
Reduced == heap[new_arr]

Returned        == pc = "done"
ReturnedReduced == pc = "done" /\ mode = "reduced"
ReturnedFull    == pc = "done" /\ mode # "reduced"

RowCells(a, i) == {i} \X (0 .. Cols(a) - 1)
OnCells(a)     == {p \in DOMAIN a.cell : a.cell[p] = 1}
RowOnes(a, i)  == Cardinality(OnCells(a) \cap RowCells(a, i))

\* cell p starts a maximal run of 1s of its row
RunStart(a, p) ==
    a.cell[p] = 1 /\ (p[2] = 0 \/ a.cell[<<p[1], p[2] - 1>>] = 0)
RunStarts(a) == {p \in DOMAIN a.cell : RunStart(a, p)}

\* length of the maximal run of 1s that starts at p
RunLen(a, p) ==
    CHOOSE n \in 1 .. Cols(a) - p[2] :
        /\ \A k \in p[2] .. p[2] + n - 1 : a.cell[<<p[1], k>>] = 1
        /\ (p[2] + n = Cols(a) \/ a.cell[<<p[1], p[2] + n>>] = 0)

IsCommand(l) == l.op \in {"G28", "G90", "G21", "G1", "M84"}
Commands(prog) == SelectSeq(prog, IsCommand)

IsMove(l)    == l.op = "G1" /\ HasArg(l, "X") /\ HasArg(l, "Y")
IsZ(l)       == l.op = "G1" /\ HasArg(l, "Z")
IsPenDown(l) == IsZ(l) /\ Arg(l, "Z") = z_offset
IsPenUp(l)   == IsZ(l) /\ Arg(l, "Z") = PenUpZ
PenDowns(c)  == {k \in 1 .. Len(c) : IsPenDown(c[k])}

\* number of cells a stroke covers: pen-down at k, between the moves k-1 and k+1
StrokeCells(c, k) == (Arg(c[k + 1], "Y") - Arg(c[k - 1], "Y")) \div scale + 1

RECURSIVE SumStrokeCells(_, _)
SumStrokeCells(c, K) ==
    IF K = {} THEN 0
    ELSE LET k == CHOOSE q \in K : TRUE
         IN StrokeCells(c, k) + SumStrokeCells(c, K \ {k})

----------------------------------------------------------------------------
(* Claims on reduce_by_row *)

\* C1: when reduce_by_row has returned, the values of each row of the result sum
\* to the number of 1s in the same row of the input mask.
C1_RowSumIsCount ==
    ReturnedReduced =>
        \A i \in 0 .. Rows(Mask) - 1 :
            SumOver(Reduced.cell, RowCells(Reduced, i)) = RowOnes(Mask, i)

C1_Witness ==
    /\ ReturnedReduced
    /\ Rows(Mask) >= 2
    /\ \E p \in DOMAIN Reduced.cell : Reduced.cell[p] >= 2
    /\ \E i, k \in 0 .. Rows(Mask) - 1 : RowOnes(Mask, i) # RowOnes(Mask, k)

\* C2: when reduce_by_row has returned, a cell of the result holds the length of
\* the maximal run of 1s that starts there in the input mask, and 0 if no run
\* starts there (cells inside a run and cells that were 0).
C2_RunsCollapsed ==
    ReturnedReduced =>
        /\ Reduced.shape = Mask.shape
        /\ \A p \in DOMAIN Mask.cell :
              Reduced.cell[p] = IF RunStart(Mask, p) THEN RunLen(Mask, p) ELSE 0

\* the row [1,1,1,0,1] became [3,0,0,0,1]
C2_Witness ==
    /\ ReturnedReduced
    /\ Mask.shape = <<1, 5>>
    /\ \A j \in 0 .. 4 : Mask.cell[<<0, j>>] = (IF j = 3 THEN 0 ELSE 1)
    /\ Reduced.cell[<<0, 0>>] = 3
    /\ Reduced.cell[<<0, 4>>] = 1
    /\ \A j \in 1 .. 3 : Reduced.cell[<<0, j>>] = 0

\* C10: no step changes the mask object passed to reduce_by_row, and new_arr,
\* once bound, is another object of the same shape.
C10_ArgumentUnchanged ==
    [][/\ heap'[data_avg'] = heap[data_avg]
       /\ new_arr' # "unbound" =>
             /\ new_arr' # data_avg'
             /\ heap'[new_arr'].shape = heap[data_avg].shape]_vars

C10_Witness ==
    /\ ReturnedReduced
    /\ Reduced # Mask
    /\ \E p \in DOMAIN Mask.cell : Mask.cell[p] = 1 /\ Reduced.cell[p] = 0

----------------------------------------------------------------------------
(* Claims on convert_image and the emitters *)

\* C3: the program of to_gcode holds one travel, one pen-down and one pen-up per
\* cell of the mask that is 1; the program of to_gcode_reduced on the result of
\* reduce_by_row holds one stroke per maximal run of 1s, and the cells the
\* strokes cover add up to the number of 1s of the mask.
C3_MarkCounts ==
    LET c == Commands(gcode) IN
    /\ ReturnedFull =>
          /\ Cardinality(PenDowns(c)) = Cardinality(OnCells(Mask))
          /\ Cardinality({k \in 1 .. Len(c) : IsPenUp(c[k])})
                = Cardinality(OnCells(Mask))
          /\ Cardinality({k \in 11 .. Len(c) : IsMove(c[k])})
                = Cardinality(OnCells(Mask))
    /\ ReturnedReduced =>
          /\ Cardinality(PenDowns(c)) = Cardinality(RunStarts(Mask))
          /\ SumStrokeCells(c, PenDowns(c)) = Cardinality(OnCells(Mask))

\* a reduced program that merged adjacent cells: fewer strokes than on-cells
C3_Witness ==
    /\ ReturnedReduced
    /\ Cardinality(PenDowns(Commands(gcode))) >= 2
    /\ Cardinality(PenDowns(Commands(gcode))) < Cardinality(OnCells(Mask))

\* C4: a mode other than "reduced" ("normal", "full" or any other string) returns
\* the program of to_gcode on the mask and never calls reduce_by_row, so an
\* unrecognized mode returns what "full" returns; "reduced" returns the program
\* of to_gcode_reduced on the result of reduce_by_row.
C4_ModeFallback ==
    Returned =>
        /\ mode # "reduced" =>
              /\ gcode = to_gcode(Mask, x, y, z_offset, scale)
              /\ new_arr = "unbound"
        /\ mode = "reduced" =>
              /\ new_arr # "unbound"
              /\ gcode = to_gcode_reduced(Reduced, x, y, z_offset, scale)

\* an unrecognized mode on a mask where the two emitters differ
C4_Witness ==
    /\ Returned
    /\ mode \notin {"normal", "reduced", "full"}
    /\ OnCells(Mask) # {}
    /\ gcode # to_gcode_reduced(Mask, x, y, z_offset, scale)

\* the Z word of the last Z command before position k
LastZ(c, k) ==
    LET S == {m \in 1 .. k - 1 : IsZ(c[m])}
    IN Arg(c[CHOOSE m \in S : \A n \in S : n <= m], "Z")

MoveTo(px, py, f) == Line("G1", << <<"X", px>>, <<"Y", py>>, <<"F", f>> >>)

LexLess(a, b) == a[1] < b[1] \/ (a[1] = b[1] /\ a[2] < b[2])

\* C8: the commands of a returned program are the header, the five outline
\* moves, the marks in ascending row and column order, and M84 last; a pen-down
\* comes right after the travel to its mark and is followed by the pen-up, with
\* at most the stroke move in between; the outline and every travel to a mark
\* are made with the pen at Z5 or Z2; the last Z command raises the pen.
C8_CommandOrder ==
    Returned =>
      LET c  == Commands(gcode)
          n  == Len(c)
          xe == x + Rows(Mask) * scale
          ye == y + Cols(Mask) * scale
          starts == {k \in 11 .. n - 1 : IsPenDown(c[k + 1])}
          pos(k) == <<Arg(c[k], "X"), Arg(c[k], "Y")>>
      IN
      /\ n >= 11
      /\ SubSeq(c, 1, 5) =
            << Line("G28", <<>>), Line("G90", <<>>), Line("G21", <<>>),
               Line("G1", << <<"Z", LiftZ>>, <<"F", 600>> >>),
               MoveTo(x, y, 3000) >>
      /\ SubSeq(c, 6, 10) =
            << MoveTo(x, y, 1000), MoveTo(xe, y, 1000), MoveTo(xe, ye, 1000),
               MoveTo(x, ye, 1000), MoveTo(x, y, 1000) >>
      /\ \A k \in 1 .. n : c[k].op = "M84" <=> k = n
      /\ \A k \in 1 .. n : c[k].op \in {"G28", "G90", "G21"} => k <= 3
      /\ \A k \in PenDowns(c) :
            /\ k >= 12
            /\ IsMove(c[k - 1])
            /\ \/ IsPenUp(c[k + 1])
               \/ /\ IsMove(c[k + 1])
                  /\ IsPenUp(c[k + 2])
      /\ \A k \in 11 .. n - 1 :
            IsMove(c[k]) => (k \in starts \/ k - 1 \in PenDowns(c))
      /\ \A k \in (6 .. 10) \cup starts : LastZ(c, k) \in {LiftZ, PenUpZ}
      /\ \A k, m \in starts : k < m => LexLess(pos(k), pos(m))
      /\ {pos(k) : k \in starts} =
            {<<x + p[1] * scale, y + p[2] * scale>> :
                p \in (IF mode = "reduced" THEN RunStarts(Mask) ELSE OnCells(Mask))}
      /\ LastZ(c, n) \in {LiftZ, PenUpZ}

\* a program of to_gcode with marks in two rows and two marks in one row
C8_Witness ==
    /\ ReturnedFull
    /\ \E p, q, r \in OnCells(Mask) : p[1] < q[1] /\ q[1] = r[1] /\ q[2] < r[2]

\* C9: each stroke of to_gcode_reduced starts at (x + i*scale, y + j*scale) for
\* a cell (i, j) that starts a run, ends at (x + i*scale, y + (j+N-1)*scale) with
\* N the value of the cell, j+N-1 is a column of the row, the cells
\* (i, j) .. (i, j+N-1) are 1 in the mask, and both ends lie inside the outline.
C9_StrokeGeometry ==
    ReturnedReduced =>
      LET c == Commands(gcode) IN
      \A k \in PenDowns(c) :
        /\ IsMove(c[k - 1])
        /\ IsMove(c[k + 1])
        /\ \E p \in DOMAIN Mask.cell :
              LET nn == Reduced.cell[p] IN
              /\ nn > 0
              /\ Arg(c[k - 1], "X") = x + p[1] * scale
              /\ Arg(c[k - 1], "Y") = y + p[2] * scale
              /\ Arg(c[k + 1], "X") = x + p[1] * scale
              /\ Arg(c[k + 1], "Y") = y + (p[2] + nn - 1) * scale
              /\ p[2] + nn - 1 <= Cols(Mask) - 1
              /\ \A j \in p[2] .. p[2] + nn - 1 : Mask.cell[<<p[1], j>>] = 1
        /\ \A m \in {k - 1, k + 1} :
              /\ x <= Arg(c[m], "X")
              /\ Arg(c[m], "X") <= x + Rows(Mask) * scale
              /\ y <= Arg(c[m], "Y")
              /\ Arg(c[m], "Y") <= y + Cols(Mask) * scale

\* a stroke of three cells that ends in the last column of the second row
C9_Witness ==
    /\ ReturnedReduced
    /\ Rows(Mask) = 2
    /\ Cols(Mask) = 3
    /\ Reduced.cell[<<1, 0>>] = 3
    /\ \E k \in PenDowns(Commands(gcode)) :
          /\ Arg(Commands(gcode)[k - 1], "X") = x + scale
          /\ Arg(Commands(gcode)[k + 1], "Y") = y + 2 * scale

----------------------------------------------------------------------------
(* floyd_steinberg.  A sample is an integer number of 1/Unit; a product with *)
(* a weight is rounded to the nearest 1/Unit, as the float product is        *)
(* rounded to the nearest float.  Unit = 2 * 24^Resolution keeps 1/2 and     *)
(* Resolution successive propagations exact.                                 *)

RECURSIVE Pow(_, _)
Pow(b, e) == IF e = 0 THEN 1 ELSE b * Pow(b, e - 1)

Unit == 2 * Pow(24, Resolution)

\* samples in [0, 1]: 0, 1/2 (a tie), the next value above 1/2, and 1
Levels == {0, Unit \div 2, Unit \div 2 + 1, Unit}

Shapes3 ==
    {s \in (1 .. MaxCells) \X (1 .. MaxCells) \X (1 .. MaxCells) :
        s[1] * s[2] * s[3] <= MaxCells}

Idx3(s) == (0 .. s[1] - 1) \X (0 .. s[2] - 1) \X (0 .. s[3] - 1)

PixelBuffers == UNION {[shape : {s}, cell : [Idx3(s) -> Levels]] : s \in Shapes3}

Nearest(n, d) == (2 * n + d) \div (2 * d)

\* Python's round() of a float: to the nearest integer, ties to the even one
python_round(v) ==
    LET q == v \div Unit
        r == v % Unit
    IN IF 2 * r < Unit THEN q
       ELSE IF 2 * r > Unit THEN q + 1
       ELSE IF q % 2 = 0 THEN q ELSE q + 1

\* (w / 24) * err
weighted(w, err) == Nearest(w * err, 24)

\* the body of the innermost loop at <<j, i, c>>
fs_cell(img, pos) ==
    LET j  == pos[1]
        i  == pos[2]
        c  == pos[3]
        lx == img.shape[1]
        ly == img.shape[2]
        rounded == python_round(img.cell[<<i, j, c>>])
        err == img.cell[<<i, j, c>>] - rounded * Unit
        add(p) ==
            IF p = <<i + 1, j, c>> /\ i < lx - 1 THEN weighted(7, err)
            ELSE IF p = <<i, j + 1, c>> /\ j < ly - 1 THEN weighted(5, err)
            ELSE IF p = <<i - 1, j + 1, c>> /\ j < ly - 1 /\ i > 0
                 THEN weighted(1, err)
            ELSE IF p = <<i + 1, j + 1, c>> /\ j < ly - 1 /\ i < lx - 1
                 THEN weighted(3, err)
            ELSE 0
    IN [img EXCEPT !.cell =
          [p \in DOMAIN img.cell |->
              IF p = <<i, j, c>> THEN rounded * Unit ELSE img.cell[p] + add(p)]]

\* the loop position after <<j, i, c>>: for j: for i: for c; <<ly, 0, 0>> at the end
rows_outermost(shape, pos) ==
    IF pos[3] + 1 < shape[3] THEN <<pos[1], pos[2], pos[3] + 1>>
    ELSE IF pos[1] + 1 < shape[2] THEN <<pos[1] + 1, pos[2], 0>>
    ELSE IF pos[2] + 1 < shape[1] THEN <<0, pos[2] + 1, 0>>
    ELSE <<shape[2], 0, 0>>
fs_next(shape, pos) ==
    IF pos[3] + 1 < shape[3] THEN <<pos[1], pos[2], pos[3] + 1>>
    ELSE IF pos[2] + 1 < shape[1] THEN <<pos[1], pos[2] + 1, 0>>
    ELSE <<pos[1] + 1, 0, 0>>

InitFS ==
    /\ image \in PixelBuffers
    /\ fs_pos = <<0, 0, 0>>
    /\ fs_pc = "loop"
    /\ IdleMain
    /\ IdleDS
    /\ IdleAvg

FSCell ==
    /\ fs_pc = "loop"
    /\ fs_pos[1] < image.shape[2]
    /\ image' = fs_cell(image, fs_pos)
    /\ fs_pos' = fs_next(image.shape, fs_pos)
    /\ UNCHANGED <<fs_pc, mainVars, dsVars, avVars>>

\* return image
FSReturn ==
    /\ fs_pc = "loop"
    /\ fs_pos[1] = image.shape[2]
    /\ fs_pc' = "done"
    /\ UNCHANGED <<image, fs_pos, mainVars, dsVars, avVars>>

NextFS == FSCell \/ FSReturn

SpecFS == InitFS /\ [][NextFS]_vars

\* the cells the loops have passed: before fs_pos in the order j, i, c
Visited ==
    {p \in DOMAIN image.cell :
        \/ fs_pc = "done"
        \/ p[2] < fs_pos[1]
        \/ (p[2] = fs_pos[1] /\ p[1] < fs_pos[2])
        \/ (p[2] = fs_pos[1] /\ p[1] = fs_pos[2] /\ p[3] < fs_pos[3])}

\* C5: at every point of floyd_steinberg each cell the loops have passed holds
\* exactly 0 or 1 (so a rounded cell is never pushed off 0 or 1 afterwards),
\* and when it returns every cell of the buffer holds 0 or 1.
C5_DitheredBinary ==
    /\ \A p \in Visited : image.cell[p] \in {0, Unit}
    /\ fs_pc = "done" => Visited = DOMAIN image.cell

\* in a 3 x 2 buffer the loops reach cell (1, 1) after its four neighbours
\* (0, 1), (1, 0), (2, 0) and (0, 0) were rounded, and their error has pushed
\* it above 1
C5_Witness ==
    /\ fs_pc = "loop"
    /\ image.shape = <<3, 2, 1>>
    /\ fs_pos = <<1, 1, 0>>
    /\ image.cell[<<1, 1, 0>>] > Unit
    /\ image.cell[<<0, 1, 0>>] = Unit

----------------------------------------------------------------------------
(* downsample *)

\* buffers as floyd_steinberg returns them
DitheredBuffers ==
    UNION {[shape : {s}, cell : [Idx3(s) -> {0, Unit}]] : s \in Shapes3}

\* a factor is a Python int or a Python float (val is then its integral part)
Factors ==
    [kind : {"int"}, val : -MaxFactor .. MaxFactor] \cup [kind : {"float"}, val : 1 .. 2]

Abs(k) == IF k < 0 THEN -k ELSE k

\* a[::k] on an axis of length n: the number of elements and the source of element m
slice_len(n, k)    == (n + Abs(k) - 1) \div Abs(k)
slice_src(n, k, m) == IF k > 0 THEN m * k ELSE n - 1 + m * k

Raised(e) == [status |-> e, shape |-> <<0, 0, 0>>, cell |-> <<>>]

\* image.copy()[::factor, ::factor, :]
downsample(img, factor) ==
    IF factor.kind # "int" THEN Raised("TypeError")
    ELSE IF factor.val = 0 THEN Raised("ValueError")
    ELSE LET k  == factor.val
             sh == <<slice_len(img.shape[1], k), slice_len(img.shape[2], k),
                     img.shape[3]>>
         IN [status |-> "ok",
             shape  |-> sh,
             cell   |-> [p \in Idx3(sh) |->
                           img.cell[<<slice_src(img.shape[1], k, p[1]),
                                      slice_src(img.shape[2], k, p[2]), p[3]>>]]]

InitDS ==
    /\ ds_image \in DitheredBuffers
    /\ ds_factor \in Factors
    /\ ds_result = [status |-> "none", shape |-> <<0, 0, 0>>, cell |-> <<>>]
    /\ ds_pc = "call"
    /\ IdleMain
    /\ IdleFS
    /\ IdleAvg

Downsample ==
    /\ ds_pc = "call"
    /\ ds_result' = downsample(ds_image, ds_factor)
    /\ ds_pc' = "done"
    /\ UNCHANGED <<ds_image, ds_factor, mainVars, fsVars, avVars>>

NextDS == Downsample

SpecDS == InitDS /\ [][NextDS]_vars

\* every F-th row and column of img from index 0, all channels
EveryFth(img, F) ==
    LET sh == <<(img.shape[1] + F - 1) \div F, (img.shape[2] + F - 1) \div F,
                img.shape[3]>>
    IN [shape |-> sh,
        cell  |-> [p \in Idx3(sh) |-> img.cell[<<p[1] * F, p[2] * F, p[3]>>]]]

\* C6: downsample raises an error and returns no buffer for a factor that is
\* zero, negative or not an integer; for a positive integer F it returns every
\* F-th row and every F-th column from index 0 with all channels.
C6_FactorChecked ==
    ds_pc = "done" =>
        IF ds_factor.kind = "int" /\ ds_factor.val > 0
        THEN /\ ds_result.status = "ok"
             /\ ds_result.shape = EveryFth(ds_image, ds_factor.val).shape
             /\ ds_result.cell = EveryFth(ds_image, ds_factor.val).cell
        ELSE ds_result.status # "ok"

----------------------------------------------------------------------------
(* average_array *)

AvgInputs ==
    {a \in DitheredBuffers : a.shape[3] >= 3}

Weights == (-1 .. MaxWeight) \X (-1 .. MaxWeight) \X (-1 .. MaxWeight)

\* a threshold is av_threshold / ThrDen
Thresholds == 0 .. ThrDen

\* np.dot(arr[:, :, :3], weights) at pixel (i, j), in 1/Unit
dot3(arr, w, i, j) ==
    arr.cell[<<i, j, 0>>] * w[1] + arr.cell[<<i, j, 1>>] * w[2]
        + arr.cell[<<i, j, 2>>] * w[3]

\* (dot / sum(weights)) <= threshold, in floating point: a division by 0 gives
\* nan (0/0), inf or -inf, and only -inf compares <= threshold
avg_le_threshold(d, sm, t) ==
    IF sm > 0 THEN d * ThrDen <= t * sm * Unit
    ELSE IF sm < 0 THEN d * ThrDen >= t * sm * Unit
    ELSE d < 0

average_array(arr, w, t) ==
    [status |-> "ok",
     shape  |-> <<arr.shape[1], arr.shape[2]>>,
     cell   |-> [p \in Idx2(arr.shape[1], arr.shape[2]) |->
                   IF avg_le_threshold(dot3(arr, w, p[1], p[2]),
                                       w[1] + w[2] + w[3], t)
                   THEN 1 ELSE 0]]

InitAvg ==
    /\ av_arr \in AvgInputs
    /\ av_weights \in Weights
    /\ av_threshold \in Thresholds
    /\ av_result = [status |-> "none", shape |-> <<0, 0>>, cell |-> <<>>]
    /\ av_pc = "call"
    /\ IdleMain
    /\ IdleFS
    /\ IdleDS

AverageArray ==
    /\ av_pc = "call"
    /\ av_result' = average_array(av_arr, av_weights, av_threshold)
    /\ av_pc' = "done"
    /\ UNCHANGED <<av_arr, av_weights, av_threshold, mainVars, fsVars, dsVars>>

NextAvg == AverageArray

SpecAvg == InitAvg /\ [][NextAvg]_vars

\* C7: average_array returns no mask for weights whose sum is 0; for weights
\* with a positive sum each cell of the mask is 1 exactly when
\* (R*w_r + G*w_g + B*w_b) / (w_r + w_g + w_b) <= threshold.
C7_ZeroWeightSumRejected ==
    av_pc = "done" =>
        LET sm == av_weights[1] + av_weights[2] + av_weights[3] IN
        /\ sm = 0 => av_result.status # "ok"
        /\ sm > 0 =>
              /\ av_result.status = "ok"
              /\ \A p \in DOMAIN av_result.cell :
                    av_result.cell[p] = 1 <=>
                        dot3(av_arr, av_weights, p[1], p[2]) * ThrDen
                            <= av_threshold * sm * Unit

====
